---- MODULE Spec2Model ----
(***************************************************************************)
(* Gmail rules engine: the rule pass (RuleEngine.process_emails), the      *)
(* candidate selector (DatabaseManager.get_emails_for_rule), the action    *)
(* dispatcher (ActionHandler.handle_action) and the execution recorder     *)
(* (DatabaseManager.bulk_log_rule_executions), over a store of emails, a   *)
(* store of rule executions and the remote mailbox.                        *)
(*                                                                         *)
(* Text (addresses, subjects, condition values, predicate modes) is a      *)
(* sequence of one-character strings; names that the code only compares    *)
(* for equality (field names, predicate names, action types, labels, rule  *)
(* ids) are TLA+ strings.  Python's None is NoneStr for a name and NoneTxt *)
(* for a text.  A received date is the record's age in half days.          *)
(***************************************************************************)
EXTENDS Integers, Sequences, FiniteSets, TLC

VARIABLES
    rules,       \* RuleEngine.rules: the list loaded by _load_rules
    emails,      \* the emails table: id -> row
    executions,  \* the rule_executions table: sequence of rows, in insert order
    remote,      \* the remote mailbox: id -> [unread, labels]
    run,         \* per pass process: the locals of process_emails and its position
    passes,      \* number of passes started so far
    hist         \* what the passes did so far (observation only)

vars == <<rules, emails, executions, remote, run, passes, hist>>

----------------------------------------------------------------------------
(* Bounds of the model *)

MaxPasses == 2
MaxRules == 2
MaxFaults == 1
MaxConds == 2

----------------------------------------------------------------------------
(* Python values *)

NoneStr == "<None>"
NoneTxt == <<"<None>">>

Digits == <<"0", "1", "2", "3", "4", "5", "6", "7", "8", "9">>

IsDigit(c) == \E i \in 1..10 : Digits[i] = c

DigitVal(c) == (CHOOSE i \in 1..10 : Digits[i] = c) - 1

UpperCase ==
    <<"A", "B", "C", "D", "E", "F", "G", "H", "I", "J", "K", "L", "M",
      "N", "O", "P", "Q", "R", "S", "T", "U", "V", "W", "X", "Y", "Z">>

LowerCase ==
    <<"a", "b", "c", "d", "e", "f", "g", "h", "i", "j", "k", "l", "m",
      "n", "o", "p", "q", "r", "s", "t", "u", "v", "w", "x", "y", "z">>

\* str.lower() on one character
LowerMap ==
    [c \in {UpperCase[i] : i \in 1..Len(UpperCase)} |->
        LowerCase[CHOOSE i \in 1..Len(UpperCase) : UpperCase[i] = c]]

LowerChar(c) == IF c \in DOMAIN LowerMap THEN LowerMap[c] ELSE c

\* str.lower()
Lower(s) == [i \in 1..Len(s) |-> LowerChar(s[i])]

\* Python's  a in b  on strings
IsSubstring(a, b) ==
    \E i \in 0..(Len(b) - Len(a)) : SubSeq(b, i + 1, i + Len(a)) = a

\* int(s) on a text: digits with single underscores between them; anything
\* else raises ValueError, which is IntError here
IntError == 0 - 1

IsIntLiteral(s) ==
    /\ s # NoneTxt
    /\ Len(s) > 0
    /\ IsDigit(s[1])
    /\ IsDigit(s[Len(s)])
    /\ \A i \in 1..Len(s) : IsDigit(s[i]) \/ s[i] = "_"
    /\ \A i \in 1..(Len(s) - 1) : ~(s[i] = "_" /\ s[i + 1] = "_")

RECURSIVE IntOfDigits(_)
IntOfDigits(s) ==
    IF Len(s) = 0 THEN 0
    ELSE IF s[Len(s)] = "_" THEN IntOfDigits(SubSeq(s, 1, Len(s) - 1))
    ELSE 10 * IntOfDigits(SubSeq(s, 1, Len(s) - 1)) + DigitVal(s[Len(s)])

PyInt(s) == IF IsIntLiteral(s) THEN IntOfDigits(s) ELSE IntError

----------------------------------------------------------------------------
(* Predicate library of the in-memory matcher *)

StringPredicateNames == {"contains", "does_not_contain", "equals", "does_not_equal"}

DatePredicateNames ==
    {"less_than_days", "greater_than_days", "less_than_months", "greater_than_months"}

string_predicates(name, field, value) ==
    CASE name = "contains" -> IsSubstring(Lower(value), Lower(field))
      [] name = "does_not_contain" -> ~IsSubstring(Lower(value), Lower(field))
      [] name = "equals" -> Lower(field) = Lower(value)
      [] name = "does_not_equal" -> Lower(field) # Lower(value)

\* (now - date).days of a record aged ageHalf half days
AgeDays(ageHalf) == ageHalf \div 2

DaysPerMonth == 30

\* a Python bool, or "E" for a raised exception
PyBool(b) == IF b THEN "T" ELSE "F"

\* the date lambdas comparing with <= and >=
date_predicates_Inclusive(name, ageHalf, value) ==
    IF PyInt(value) = IntError THEN "E"
    ELSE CASE name = "less_than_days" -> PyBool(AgeDays(ageHalf) <= PyInt(value))
           [] name = "greater_than_days" -> PyBool(AgeDays(ageHalf) >= PyInt(value))
           [] name = "less_than_months" ->
                  PyBool(AgeDays(ageHalf) <= PyInt(value) * DaysPerMonth)
           [] name = "greater_than_months" ->
                  PyBool(AgeDays(ageHalf) >= PyInt(value) * DaysPerMonth)

\* the date lambdas; the result is "E" when int(value) raises ValueError
date_predicates(name, ageHalf, value) ==
    IF PyInt(value) = IntError THEN "E"
    ELSE CASE name = "less_than_days" -> PyBool(AgeDays(ageHalf) < PyInt(value))
           [] name = "greater_than_days" -> PyBool(AgeDays(ageHalf) > PyInt(value))
           [] name = "less_than_months" ->
                  PyBool(AgeDays(ageHalf) < PyInt(value) * DaysPerMonth)
           [] name = "greater_than_months" ->
                  PyBool(AgeDays(ageHalf) > PyInt(value) * DaysPerMonth)

----------------------------------------------------------------------------
(* Storage-level predicates of the candidate selector *)

\* SQL  text LIKE pattern  on lower-cased operands:  %  matches any run of
\* characters,  _  matches exactly one
RECURSIVE LikeMatch(_, _)
LikeMatch(pattern, text) ==
    IF Len(pattern) = 0 THEN Len(text) = 0
    ELSE IF Head(pattern) = "%"
         THEN \E k \in 0..Len(text) :
                  LikeMatch(Tail(pattern), SubSeq(text, k + 1, Len(text)))
    ELSE /\ Len(text) > 0
         /\ Head(pattern) = "_" \/ Head(pattern) = Head(text)
         /\ LikeMatch(Tail(pattern), Tail(text))

\* column.ilike(f'%{value}%')
ILikeContains(column, value) ==
    LikeMatch(<<"%">> \o Lower(value) \o <<"%">>, Lower(column))

----------------------------------------------------------------------------
(* Rules: the content of the rules file *)

Cond(f, p, v) == [field |-> f, predicate |-> p, value |-> v]

Act(t, v) == [type |-> t, value |-> v]

Rule(i, m, cs, as) == [id |-> i, predicate |-> m, conditions |-> cs, actions |-> as]

ModeAll == <<"a", "l", "l">>
ModeAny == <<"A", "n", "y">>
ModeOther == <<"o", "n", "e">>

RuleCatalogue ==
    { \* all: sender and subject, mark as read (twice)
      Rule("r_all", ModeAll,
           <<Cond("from", "contains", <<"b", "O">>), Cond("subject", "contains", <<"A">>)>>,
           <<Act("mark_as_read", NoneStr), Act("mark_as_read", NoneStr)>>),
      \* any: sender or subject, move to a label
      Rule("r_any", ModeAny,
           <<Cond("from", "equals", <<"n", "b">>), Cond("subject", "does_not_contain", <<"a", "_">>)>>,
           <<Act("move_message", "L1")>>),
      \* no conditions
      Rule("r_none", ModeAny, <<>>, <<Act("mark_as_read", NoneStr)>>),
      \* a condition without predicate; an action without type and an unknown
      \* action only
      Rule("r_inert", ModeAll,
           <<Cond("to", NoneStr, <<"m">>)>>,
           <<Act(NoneStr, NoneStr), Act("archive", NoneStr)>>),
      \* unknown predicate mode; an unknown action, then a known one
      Rule("r_mode", ModeOther,
           <<Cond("message", "does_not_equal", <<"x">>)>>,
           <<Act("archive", NoneStr), Act("mark_as_unread", NoneStr)>>),
      \* date threshold in days
      Rule("r_days", ModeAll,
           <<Cond("received_date", "greater_than_days", <<"1">>)>>,
           <<Act("mark_as_read", NoneStr)>>),
      \* date threshold that is no number
      Rule("r_nan", ModeAny,
           <<Cond("received_date", "less_than_months", <<"x">>)>>,
           <<Act("mark_as_read", NoneStr)>>) }

RuleIds == {r.id : r \in RuleCatalogue}

\* the rules file at the path: it parses to a rule list, or reading it fails
RuleFile(ok, content) == [exists |-> TRUE, parses |-> ok, content |-> content]

\* no file at the path
MissingFile == [exists |-> FALSE, parses |-> FALSE, content |-> <<>>]

\* the two rules create_default_rules_file writes
default_rules ==
    << Rule("rule_1", <<"a", "l", "l">>,
            <<Cond("from", "contains",
                   <<"i", "m", "p", "o", "r", "t", "a", "n", "t", "@", "e", "x", "a",
                     "m", "p", "l", "e", ".", "c", "o", "m">>),
              Cond("subject", "contains",
                   <<"I", "m", "p", "o", "r", "t", "a", "n", "t">>)>>,
            <<Act("mark_as_read", NoneStr)>>),
       Rule("rule_2", <<"a", "n", "y">>,
            <<Cond("from", "contains",
                   <<"n", "e", "w", "s", "l", "e", "t", "t", "e", "r">>),
              Cond("subject", "contains",
                   <<"N", "e", "w", "s", "l", "e", "t", "t", "e", "r">>)>>,
            <<Act("move_message", "CATEGORY_PROMOTIONS")>>) >>

\* a start that writes no default rules
create_default_rules_file_NoFallback(file) == file

\* the file at the path after create_default_rules_file
create_default_rules_file(file) ==
    IF file.exists THEN file ELSE RuleFile(TRUE, default_rules)

\* RuleEngine._load_rules: any exception gives the empty list
_load_rules(file) == IF file.parses THEN file.content ELSE <<>>

\* the rule lists a rules file can hold, up to MaxRules rules; rule ids are
\* unique within a list
RuleLists ==
    UNION {{f \in [1..n -> RuleCatalogue] : \A i, j \in 1..n : f[i] = f[j] => i = j}
           : n \in 0..MaxRules}

RuleFiles == {RuleFile(TRUE, l) : l \in RuleLists} \cup {RuleFile(FALSE, <<>>), MissingFile}

\* what main found at the path of the rules file
FileState(file) ==
    IF ~file.exists THEN "missing" ELSE IF file.parses THEN "parsed" ELSE "unreadable"

----------------------------------------------------------------------------
(* Emails: rows of the emails table, as fetch_and_store_emails writes them *)

Email(f, t, s, b, age, read, ls) ==
    [from_address |-> f, to_address |-> t, subject |-> s, body |-> b,
     received_age |-> age, is_read |-> read, labels |-> ls]

EmailCatalogue ==
    { Email(<<"B", "o">>, <<"m">>, <<"a", "b">>, <<"x">>, 3, FALSE, <<"INBOX", "UNREAD">>),
      Email(<<"n", "b">>, <<"m">>, <<"B">>, <<"y">>, 5, TRUE, <<"INBOX", "L1">>) }

EmailIds == {1, 2}

\* the stores a pass can find: a different message under each id
Stores == {f \in [EmailIds -> EmailCatalogue] : \A i, j \in EmailIds : f[i] = f[j] => i = j}

\* the remote mailbox holds the label set the row was fetched from
RemoteOf(row) == {row.labels[i] : i \in 1..Len(row.labels)}

----------------------------------------------------------------------------
(* The in-memory matcher *)

\* Python's  not x  for a name: None and the empty string are falsy
Falsy(name) == name = NoneStr \/ name = ""

KnownFields == {"from", "to", "subject", "message", "received_date"}

\* a text, an age, or NoneTxt for an unknown field
_get_field_value(email, field) ==
    CASE field = "from" -> email.from_address
      [] field = "to" -> email.to_address
      [] field = "subject" -> email.subject
      [] field = "message" -> email.body
      [] field = "received_date" -> email.received_age
      [] OTHER -> NoneTxt

\* the evaluation without the test of field_value: a predicate applied to None
\* raises
_evaluate_condition_NoFieldCheck(email, condition) ==
    IF Falsy(condition.field) \/ Falsy(condition.predicate) \/ condition.value = NoneTxt
    THEN "F"
    ELSE IF condition.field \notin KnownFields
         THEN IF condition.predicate \in StringPredicateNames THEN "E" ELSE "F"
    ELSE IF condition.field = "received_date"
         THEN IF condition.predicate \in DatePredicateNames
              THEN date_predicates(condition.predicate,
                                   _get_field_value(email, condition.field),
                                   condition.value)
              ELSE "F"
    ELSE IF condition.predicate \in StringPredicateNames
         THEN PyBool(string_predicates(condition.predicate,
                                       _get_field_value(email, condition.field),
                                       condition.value))
         ELSE "F"

\* "T", "F", or "E" when an exception escapes
_evaluate_condition(email, condition) ==
    IF Falsy(condition.field) \/ Falsy(condition.predicate) \/ condition.value = NoneTxt
    THEN "F"
    ELSE IF condition.field \notin KnownFields THEN "F"
    ELSE IF condition.field = "received_date"
         THEN IF condition.predicate \in DatePredicateNames
              THEN date_predicates(condition.predicate,
                                   _get_field_value(email, condition.field),
                                   condition.value)
              ELSE "F"
    ELSE IF condition.predicate \in StringPredicateNames
         THEN PyBool(string_predicates(condition.predicate,
                                       _get_field_value(email, condition.field),
                                       condition.value))
         ELSE "F"

\* all(...) over a generator: the first "F" or "E" decides
RECURSIVE PyAll(_)
PyAll(results) ==
    IF Len(results) = 0 THEN "T"
    ELSE IF Head(results) = "T" THEN PyAll(Tail(results))
    ELSE Head(results)

\* any(...) over a generator: the first "T" or "E" decides
RECURSIVE PyAny(_)
PyAny(results) ==
    IF Len(results) = 0 THEN "F"
    ELSE IF Head(results) = "F" THEN PyAny(Tail(results))
    ELSE Head(results)

ConditionResults(email, rule) ==
    [i \in 1..Len(rule.conditions) |-> _evaluate_condition(email, rule.conditions[i])]

_evaluate_rule(email, rule) ==
    IF Len(rule.conditions) = 0 THEN "F"
    ELSE IF Lower(rule.predicate) = <<"a", "l", "l">>
         THEN PyAll(ConditionResults(email, rule))
    ELSE IF Lower(rule.predicate) = <<"a", "n", "y">>
         THEN PyAny(ConditionResults(email, rule))
    ELSE "F"

----------------------------------------------------------------------------
(* The candidate selector: DatabaseManager.get_emails_for_rule *)

\* what the loop over the conditions does with one condition: "skip" (continue
\* or no branch taken), "raise" (int(value) fails) or "cond" (a filter appended)
PushKind(condition) ==
    IF Falsy(condition.field) \/ Falsy(condition.predicate) \/ condition.value = NoneTxt
    THEN "skip"
    ELSE IF condition.field \notin KnownFields THEN "skip"
    ELSE IF condition.field = "received_date"
         THEN IF condition.predicate \notin DatePredicateNames THEN "skip"
              ELSE IF PyInt(condition.value) = IntError THEN "raise"
              ELSE "cond"
    ELSE IF condition.predicate \in StringPredicateNames THEN "cond"
    ELSE "skip"

\* the appended filter on one row.  received_date > now - N days is an age
\* below N days, and an age is counted in half days here
PushHolds(condition, row) ==
    LET column == _get_field_value(row, condition.field)
        value == condition.value
        pred == condition.predicate
    IN  CASE pred = "less_than_days" -> column < 2 * PyInt(value)
          [] pred = "greater_than_days" -> column > 2 * PyInt(value)
          [] pred = "less_than_months" -> column < 2 * PyInt(value) * DaysPerMonth
          [] pred = "greater_than_months" -> column > 2 * PyInt(value) * DaysPerMonth
          [] pred = "contains" -> ILikeContains(column, value)
          [] pred = "does_not_contain" -> ~ILikeContains(column, value)
          [] pred = "equals" -> Lower(column) = Lower(value)
          [] pred = "does_not_equal" -> Lower(column) # Lower(value)

\* db_conditions: the positions of the conditions that appended a filter
DbConditions(rule) ==
    {i \in 1..Len(rule.conditions) : PushKind(rule.conditions[i]) = "cond"}

\* the filter of the pushdown phase on one row
PushdownFilter(rule, row) ==
    LET db == DbConditions(rule)
    IN  IF Lower(rule.predicate) = <<"a", "l", "l">> /\ db # {}
        THEN \A i \in db : PushHolds(rule.conditions[i], row)
        ELSE IF Lower(rule.predicate) = <<"a", "n", "y">> /\ db # {}
        THEN \E i \in db : PushHolds(rule.conditions[i], row)
        ELSE TRUE

\* the query without its exclusion phase
NotExecuted_Skipped(rule, id, execs) == TRUE

\* the subquery selecting on the wrong side of the rule id
NotExecuted_OtherRules(rule, id, execs) ==
    ~\E k \in 1..Len(execs) : execs[k].rule_id # rule.id /\ execs[k].email_id = id

\* the exclusion phase on one row: ~Email.id.in_(subquery)
NotExecuted(rule, id, execs) ==
    ~\E k \in 1..Len(execs) : execs[k].rule_id = rule.id /\ execs[k].email_id = id

\* query.all(): the selected rows as a list of detached copies, each as the
\* row is at the time of the query.  The query has no ORDER BY; the list is in
\* id order here, and the store is drawn over every assignment of rows to ids
RECURSIVE RowsInOrder(_, _)
RowsInOrder(ids, ems) ==
    IF ids = {} THEN <<>>
    ELSE LET m == CHOOSE i \in ids : \A j \in ids : i <= j
         IN  <<[id |-> m, row |-> ems[m]]>> \o RowsInOrder(ids \ {m}, ems)

\* the selector without its early return for an empty condition list
get_emails_for_rule_NoEmptyCheck(rule, ems, execs) ==
    IF \E i \in 1..Len(rule.conditions) : PushKind(rule.conditions[i]) = "raise"
    THEN [raised |-> TRUE, rows |-> <<>>]
    ELSE [raised |-> FALSE,
          rows |-> RowsInOrder({id \in DOMAIN ems :
                                    /\ PushdownFilter(rule, ems[id])
                                    /\ NotExecuted(rule, id, execs)}, ems)]

\* [raised, rows]: raised when int(value) fails on a date condition, else the
\* rows the query selects
get_emails_for_rule(rule, ems, execs) ==
    IF Len(rule.conditions) = 0 THEN [raised |-> FALSE, rows |-> <<>>]
    ELSE IF \E i \in 1..Len(rule.conditions) : PushKind(rule.conditions[i]) = "raise"
    THEN [raised |-> TRUE, rows |-> <<>>]
    ELSE [raised |-> FALSE,
          rows |-> RowsInOrder({id \in DOMAIN ems :
                                    /\ PushdownFilter(rule, ems[id])
                                    /\ NotExecuted(rule, id, execs)}, ems)]

----------------------------------------------------------------------------
(* The remote mailbox and the store's update, as the dispatcher uses them *)

\* EmailFetcher.mark_as_read: the label set after the call; an HttpError is
\* caught there and leaves the mailbox as it is
mark_as_read(labelSet, remoteOk) ==
    IF remoteOk THEN labelSet \ {"UNREAD"} ELSE labelSet

\* EmailFetcher.mark_as_unread
mark_as_unread(labelSet, remoteOk) ==
    IF remoteOk THEN labelSet \cup {"UNREAD"} ELSE labelSet

\* EmailFetcher.move_message
move_message(labelSet, label_id, remoteOk) ==
    IF remoteOk THEN (labelSet \cup {label_id}) \ {"INBOX"} ELSE labelSet

\* DatabaseManager.update_email: the stored row after the call; an
\* SQLAlchemyError rolls the update back
update_email(stored, updates, dbOk) ==
    IF dbOk
    THEN [f \in DOMAIN stored |-> IF f \in DOMAIN updates THEN updates[f] ELSE stored[f]]
    ELSE stored

\* message['labelIds'] as a list: the labels of the message in the order the
\* mailbox reports them
RECURSIVE LabelList(_)
LabelList(labelIds) ==
    IF labelIds = {} THEN <<>>
    ELSE LET x == CHOOSE y \in labelIds : TRUE
         IN  <<x>> \o LabelList(labelIds \ {x})

\* EmailFetcher._get_email_data: the row built from the message in the
\* mailbox; the headers of a message do not change, its labels do
_get_email_data(message, labelIds) ==
    [from_address |-> message.from_address, to_address |-> message.to_address,
     subject |-> message.subject, body |-> message.body,
     received_age |-> message.received_age,
     is_read |-> "UNREAD" \notin labelIds,
     labels |-> LabelList(labelIds)]

\* the two tables of the store
Database(ems, execs) == [emails |-> ems, executions |-> execs]

\* an upsert that deletes the row and inserts it again, and with the row the
\* executions that refer to it
store_email_Reinserted(db, id, email_data, dbOk) ==
    IF dbOk
    THEN Database([db.emails EXCEPT ![id] = email_data],
                  SelectSeq(db.executions, LAMBDA x : x.email_id # id))
    ELSE db

\* DatabaseManager.store_email for a message_id the store has: every column
\* of the row is set from email_data, rule_executions is not touched; an
\* SQLAlchemyError rolls the update back
store_email(db, id, email_data, dbOk) ==
    IF dbOk
    THEN Database([db.emails EXCEPT ![id] =
                      [f \in DOMAIN @ |-> IF f \in DOMAIN email_data THEN email_data[f]
                                          ELSE @[f]]],
                  db.executions)
    ELSE db

\* a bulk insert into a table with a unique (rule_id, email_id): a batch with
\* a pair the table has is rolled back
bulk_log_rule_executions_Unique(execs, batch_executions, dbOk) ==
    IF /\ dbOk
       /\ \A i \in 1..Len(batch_executions) : \A k \in 1..Len(execs) :
              \/ execs[k].rule_id # batch_executions[i].rule_id
              \/ execs[k].email_id # batch_executions[i].email_id
    THEN execs \o batch_executions
    ELSE execs

\* a bulk insert that keeps the rows written before the failure
bulk_log_rule_executions_Partial(execs, batch_executions, dbOk) ==
    IF dbOk THEN execs \o batch_executions ELSE Append(execs, Head(batch_executions))

\* DatabaseManager.bulk_log_rule_executions: the rule_executions table after
\* the call; an SQLAlchemyError rolls the whole batch back
bulk_log_rule_executions(execs, batch_executions, dbOk) ==
    IF dbOk THEN execs \o batch_executions ELSE execs

----------------------------------------------------------------------------
(* The action dispatcher: ActionHandler.handle_action.  email is the detached
   row the selector returned, labelSet the message's labels in the mailbox,
   stored the row in the store now.  The outcome is the returned value, the
   mailbox and the store after the call, and whether the mailbox and the
   store were called. *)

\* the action types handle_action has a branch for
KnownActions == {"mark_as_read", "mark_as_unread", "move_message"}

Outcome(res, labelSet, stored, rc, uc) ==
    [result |-> res, remote |-> labelSet, stored |-> stored,
     remoteCalled |-> rc, updateCalled |-> uc]

_mark_as_read(email, labelSet, stored, remoteOk, dbOk) ==
    IF email.is_read
    THEN Outcome(TRUE, labelSet, stored, FALSE, FALSE)
    ELSE Outcome(TRUE, mark_as_read(labelSet, remoteOk),
                 update_email(stored, [is_read |-> TRUE], dbOk), TRUE, TRUE)

_mark_as_unread(email, labelSet, stored, remoteOk, dbOk) ==
    IF ~email.is_read
    THEN Outcome(TRUE, labelSet, stored, FALSE, FALSE)
    ELSE Outcome(TRUE, mark_as_unread(labelSet, remoteOk),
                 update_email(stored, [is_read |-> FALSE], dbOk), TRUE, TRUE)

\* the move without the test for a label the record already has
_move_message_NoCheck(email, label_id, labelSet, stored, remoteOk, dbOk) ==
    Outcome(TRUE, move_message(labelSet, label_id, remoteOk),
            update_email(stored, [labels |-> Append(email.labels, label_id)], dbOk),
            TRUE, TRUE)

_move_message(email, label_id, labelSet, stored, remoteOk, dbOk) ==
    IF \E i \in 1..Len(email.labels) : email.labels[i] = label_id
    THEN Outcome(TRUE, labelSet, stored, FALSE, FALSE)
    ELSE Outcome(TRUE, move_message(labelSet, label_id, remoteOk),
                 update_email(stored, [labels |-> Append(email.labels, label_id)], dbOk),
                 TRUE, TRUE)

\* the dispatcher reporting success for an action type it does not know
handle_action_UnknownApplied(email, action_type, action_value, labelSet, stored, remoteOk, dbOk) ==
    IF action_type = "mark_as_read"
    THEN _mark_as_read(email, labelSet, stored, remoteOk, dbOk)
    ELSE IF action_type = "mark_as_unread"
    THEN _mark_as_unread(email, labelSet, stored, remoteOk, dbOk)
    ELSE IF action_type = "move_message"
    THEN _move_message(email, action_value, labelSet, stored, remoteOk, dbOk)
    ELSE Outcome(TRUE, labelSet, stored, FALSE, FALSE)

handle_action(email, action_type, action_value, labelSet, stored, remoteOk, dbOk) ==
    IF action_type = "mark_as_read"
    THEN _mark_as_read(email, labelSet, stored, remoteOk, dbOk)
    ELSE IF action_type = "mark_as_unread"
    THEN _mark_as_unread(email, labelSet, stored, remoteOk, dbOk)
    ELSE IF action_type = "move_message"
    THEN _move_message(email, action_value, labelSet, stored, remoteOk, dbOk)
    ELSE Outcome(FALSE, labelSet, stored, FALSE, FALSE)

----------------------------------------------------------------------------
(* The pass: RuleEngine.process_emails, one process per running pass *)

Procs == {1, 2}

EmptyDict == <<>>

Idle ==
    [pc |-> "idle", pass |-> 0, ruleIdx |-> 0, potential_matches |-> <<>>, emailIdx |-> 0,
     actionIdx |-> 0, actions_taken |-> EmptyDict, batch_actions |-> <<>>,
     batchBound |-> FALSE, processed_count |-> 0]

\* the head of  for rule in self.rules
EnterRule(l) ==
    IF l.ruleIdx <= Len(rules) THEN [l EXCEPT !.pc = "select"]
    ELSE [l EXCEPT !.pc = "log"]

\* the batch entry appended without the test of actions_taken
CloseEmail_AlwaysLogs(l) ==
    LET entry == [email_id |-> l.potential_matches[l.emailIdx].id,
                  rule_id |-> rules[l.ruleIdx].id,
                  actions_taken |-> l.actions_taken]
    IN  [l EXCEPT !.batch_actions = Append(@, entry),
                  !.processed_count = @ + 1,
                  !.emailIdx = @ + 1,
                  !.actionIdx = 1,
                  !.actions_taken = EmptyDict]

\* if actions_taken: batch_actions.append(...); processed_count += 1
CloseEmail(l) ==
    LET taken == l.actions_taken # EmptyDict
        entry == [email_id |-> l.potential_matches[l.emailIdx].id,
                  rule_id |-> rules[l.ruleIdx].id,
                  actions_taken |-> l.actions_taken]
    IN  [l EXCEPT !.batch_actions = IF taken THEN Append(@, entry) ELSE @,
                  !.processed_count = IF taken THEN @ + 1 ELSE @,
                  !.emailIdx = @ + 1,
                  !.actionIdx = 1,
                  !.actions_taken = EmptyDict]

\* a map that takes every action the handler was called for
RecordResult_Always(actions_taken, action, result) ==
    (action.type :> action.value) @@ actions_taken

\* if result: actions_taken[action_type] = action_value
RecordResult(actions_taken, action, result) ==
    IF result THEN (action.type :> action.value) @@ actions_taken ELSE actions_taken

\* the loops with one query for the whole pass: the next rule goes through
\* the candidates of the rule before it
RECURSIVE Settle_KeepsCandidates(_)
Settle_KeepsCandidates(l) ==
    IF l.emailIdx > Len(l.potential_matches)
    THEN IF l.ruleIdx + 1 <= Len(rules)
         THEN Settle_KeepsCandidates([l EXCEPT !.ruleIdx = @ + 1, !.emailIdx = 1,
                                               !.actionIdx = 1])
         ELSE EnterRule([l EXCEPT !.ruleIdx = @ + 1, !.potential_matches = <<>>,
                                  !.emailIdx = 0, !.actionIdx = 0])
    ELSE IF l.actionIdx > Len(rules[l.ruleIdx].actions)
    THEN Settle_KeepsCandidates(CloseEmail(l))
    ELSE IF Falsy(rules[l.ruleIdx].actions[l.actionIdx].type)
    THEN Settle_KeepsCandidates([l EXCEPT !.actionIdx = @ + 1])
    ELSE [l EXCEPT !.pc = "act"]

\* run the loops of process_emails and _execute_actions up to the next call of
\* the handler, the next query, or the end of the rule list
RECURSIVE Settle(_)
Settle(l) ==
    IF l.emailIdx > Len(l.potential_matches)
    THEN EnterRule([l EXCEPT !.ruleIdx = @ + 1, !.potential_matches = <<>>,
                             !.emailIdx = 0, !.actionIdx = 0])
    ELSE IF l.actionIdx > Len(rules[l.ruleIdx].actions) THEN Settle(CloseEmail(l))
    ELSE IF Falsy(rules[l.ruleIdx].actions[l.actionIdx].type)
    THEN Settle([l EXCEPT !.actionIdx = @ + 1])
    ELSE [l EXCEPT !.pc = "act"]

\* failures of the environment so far, by kind: a store read, a store write,
\* a remote call
NoFaults == [read |-> 0, write |-> 0, remote |-> 0]

FaultCount == hist.faults.read + hist.faults.write + hist.faults.remote

\* the environment may fail n more times
MayFail(n) == FaultCount + n <= MaxFaults

Count(failed) == IF failed THEN 1 ELSE 0

NoLast == [pass |-> 0, raised |-> FALSE, count |-> 0, logged |-> 0, failed |-> <<>>]

NoEval == [email_id |-> 0, results |-> <<>>, result |-> "F"]

NoCur == [pass |-> 0, ruleIdx |-> 0, rule_id |-> NoneStr, email_id |-> 0, entries |-> <<>>]

Init ==
    /\ \E file \in RuleFiles :
           /\ rules = _load_rules(create_default_rules_file(file))
           /\ hist = [handled |-> {}, cur |-> NoCur, raised |-> {}, last |-> NoLast,
                      faults |-> NoFaults, file |-> FileState(file), eval |-> NoEval]
    /\ emails \in Stores
    /\ executions = <<>>
    /\ remote = [i \in EmailIds |-> RemoteOf(emails[i])]
    /\ run = [p \in Procs |-> Idle]
    /\ passes = 0

\* the scheduler starts a pass when none is running
StartPass(p) ==
    /\ passes < MaxPasses
    /\ \A q \in Procs : run[q].pc = "idle"
    /\ \A q \in Procs : p <= q
    /\ passes' = passes + 1
    /\ run' = [run EXCEPT ![p] = EnterRule([Idle EXCEPT !.ruleIdx = 1,
                                                       !.pass = passes + 1])]
    /\ hist' = [hist EXCEPT !.cur = NoCur]
    /\ UNCHANGED <<rules, emails, executions, remote>>

\* process_emails ends by raising
Raise(p, count) ==
    /\ run' = [run EXCEPT ![p] = Idle]
    /\ hist' = [hist EXCEPT !.raised = @ \cup {run[p].pass},
                             !.last = [pass |-> run[p].pass, raised |-> TRUE,
                                       count |-> count, logged |-> 0,
                                       failed |-> <<>>]]

\* potential_matches = self.db_manager.get_emails_for_rule(rule); batch_actions = []
SelectCandidates(p) ==
    /\ run[p].pc = "select"
    /\ LET l == run[p]
           got == get_emails_for_rule(rules[l.ruleIdx], emails, executions)
       IN  IF got.raised
           THEN Raise(p, l.processed_count)
           ELSE \E readOk \in BOOLEAN :
                  /\ readOk \/ MayFail(1)
                  /\ run' = [run EXCEPT ![p] =
                        Settle([l EXCEPT !.potential_matches =
                                             IF readOk THEN got.rows ELSE <<>>,
                                         !.batch_actions = <<>>,
                                         !.batchBound = TRUE,
                                         !.emailIdx = 1,
                                         !.actionIdx = 1,
                                         !.actions_taken = EmptyDict])]
                  /\ hist' = [hist EXCEPT !.faults.read = @ + Count(~readOk)]
    /\ UNCHANGED <<rules, emails, executions, remote, passes>>

\* result = action_handler(email, action_type, action_value), and the
\* bookkeeping of _execute_actions around it
HandleAction(p) ==
    /\ run[p].pc = "act"
    /\ LET l == run[p]
           rule == rules[l.ruleIdx]
           email == l.potential_matches[l.emailIdx]
           action == rule.actions[l.actionIdx]
       IN  \E remoteOk, dbOk \in BOOLEAN :
             LET out == handle_action(email.row, action.type, action.value,
                                      remote[email.id], emails[email.id],
                                      remoteOk, dbOk)
                 entry == [type |-> action.type, value |-> action.value,
                           matched |-> _evaluate_rule(email.row, rule),
                           wasRead |-> email.row.is_read,
                           hadLabel |-> \E i \in 1..Len(email.row.labels) :
                                            email.row.labels[i] = action.value,
                           remoteSame |-> out.remote = remote[email.id],
                           storeSame |-> out.stored = emails[email.id],
                           remoteCalled |-> out.remoteCalled,
                           remoteOk |-> out.remoteCalled /\ remoteOk,
                           updateCalled |-> out.updateCalled,
                           result |-> out.result]
                 same == /\ hist.cur.pass = l.pass
                         /\ hist.cur.ruleIdx = l.ruleIdx
                         /\ hist.cur.email_id = email.id
             IN  /\ out.remoteCalled \/ remoteOk
                 /\ out.updateCalled \/ dbOk
                 /\ MayFail(Count(~remoteOk) + Count(~dbOk))
                 /\ remote' = [remote EXCEPT ![email.id] = out.remote]
                 /\ emails' = [emails EXCEPT ![email.id] = out.stored]
                 /\ run' = [run EXCEPT ![p] =
                       Settle([l EXCEPT !.actions_taken =
                                            RecordResult(@, action, out.result),
                                        !.actionIdx = @ + 1])]
                 /\ hist' = [hist EXCEPT
                       !.handled = @ \cup {[rule_id |-> rule.id, email_id |-> email.id,
                                            pass |-> l.pass, applied |-> out.result]},
                       !.cur = [pass |-> l.pass, ruleIdx |-> l.ruleIdx,
                                rule_id |-> rule.id, email_id |-> email.id,
                                entries |-> IF same THEN Append(@.entries, entry)
                                            ELSE <<entry>>],
                       !.faults.remote = @ + Count(~remoteOk),
                       !.faults.write = @ + Count(~dbOk)]
    /\ UNCHANGED <<rules, executions, passes>>

\* if batch_actions: bulk_log_rule_executions(batch_actions); return processed_count
LogAndReturn(p) ==
    /\ run[p].pc = "log"
    /\ LET l == run[p]
       IN  IF ~l.batchBound
           THEN Raise(p, l.processed_count) /\ UNCHANGED executions
           ELSE \E dbOk \in BOOLEAN :
                  LET written == l.batch_actions # <<>> /\ dbOk
                  IN  /\ dbOk \/ (l.batch_actions # <<>> /\ MayFail(1))
                      /\ executions' =
                             IF l.batch_actions # <<>>
                             THEN bulk_log_rule_executions(executions, l.batch_actions, dbOk)
                             ELSE executions
                      /\ run' = [run EXCEPT ![p] = Idle]
                      /\ hist' = [hist EXCEPT
                            !.last = [pass |-> l.pass, raised |-> FALSE,
                                      count |-> l.processed_count,
                                      logged |-> IF written THEN Len(l.batch_actions)
                                                 ELSE 0,
                                      failed |-> IF dbOk THEN <<>> ELSE l.batch_actions],
                            !.faults.write = @ + Count(~dbOk)]
    /\ UNCHANGED <<rules, emails, remote, passes>>

Next ==
    \E p \in Procs :
        \/ StartPass(p)
        \/ SelectCandidates(p)
        \/ HandleAction(p)
        \/ LogAndReturn(p)

Spec == Init /\ [][Next]_vars

----------------------------------------------------------------------------
(* Two engines on one store: two processes run main on the same database, so
   a pass of one can start while a pass of the other runs, and a fetch can
   upsert a stored record at any time.  Each engine has one rule. *)

\* the stores a fetch leaves: the mailbox lists the newest message first, and
\* the rows get their ids in that order
FetchedStores == {f \in Stores : \A i, j \in EmailIds :
                                    i < j => f[i].received_age <= f[j].received_age}

ConcurrentInit ==
    /\ \E rule \in RuleCatalogue :
           /\ rules = _load_rules(RuleFile(TRUE, <<rule>>))
           /\ hist = [handled |-> {}, cur |-> NoCur, raised |-> {}, last |-> NoLast,
                      faults |-> NoFaults, file |-> "parsed", eval |-> NoEval]
    /\ emails \in FetchedStores
    /\ executions = <<>>
    /\ remote = [i \in EmailIds |-> RemoteOf(emails[i])]
    /\ run = [p \in Procs |-> Idle]
    /\ passes = 0

\* the scheduler of process p starts a pass, whatever the other process does
StartOverlapping(p) ==
    /\ passes < MaxPasses
    /\ run[p].pc = "idle"
    /\ passes' = passes + 1
    /\ run' = [run EXCEPT ![p] = EnterRule([Idle EXCEPT !.ruleIdx = 1,
                                                       !.pass = passes + 1])]
    /\ UNCHANGED <<rules, emails, executions, remote, hist>>

\* db_manager.store_email(email_data) for the message of a stored record, as
\* it is in the mailbox now
StoreEmail(e) ==
    /\ \E dbOk \in BOOLEAN :
          LET db == store_email(Database(emails, executions), e,
                                _get_email_data(emails[e], remote[e]), dbOk)
          IN  /\ dbOk \/ MayFail(1)
              /\ emails' = db.emails
              /\ executions' = db.executions
              /\ hist' = [hist EXCEPT !.faults.write = @ + Count(~dbOk)]
    /\ UNCHANGED <<rules, remote, run, passes>>

ConcurrentNext ==
    \/ \E p \in Procs :
          \/ StartOverlapping(p)
          \/ SelectCandidates(p)
          \/ HandleAction(p)
          \/ LogAndReturn(p)
    \/ \E e \in EmailIds : StoreEmail(e)

ConcurrentSpec == ConcurrentInit /\ [][ConcurrentNext]_vars

----------------------------------------------------------------------------
(* The matcher on its own: _evaluate_rule called on a stored record, as the
   tests of the repository call it, for rules over every short list of the
   conditions below and records of several ages *)

ConditionCatalogue ==
    { Cond("subject", "contains", <<"A">>),
      Cond("from", "equals", <<"n", "b">>),
      \* no field, no predicate, no value
      Cond(NoneStr, "contains", <<"a">>),
      Cond("subject", NoneStr, <<"a">>),
      Cond("subject", "contains", NoneTxt),
      \* a field the record does not have
      Cond("cc", "contains", <<"a">>),
      \* a predicate of the other type
      Cond("subject", "less_than_days", <<"6">>),
      Cond("received_date", "contains", <<"1">>),
      \* date thresholds
      Cond("received_date", "less_than_days", <<"5">>),
      Cond("received_date", "less_than_days", <<"6">>),
      Cond("received_date", "less_than_months", <<"1">>),
      \* a threshold that is no number
      Cond("received_date", "less_than_days", <<"x">>) }

MatcherRules ==
    {Rule("r", m, cs, <<>>) :
        m \in {ModeAll, ModeAny, ModeOther},
        cs \in UNION {[1..n -> ConditionCatalogue] : n \in 1..MaxConds}}

\* ages in half days, around 5 days, 6 days and 30 days
AgeSamples == {9, 10, 11, 12, 59, 60}

MatcherStores ==
    {[i \in EmailIds |-> [store[i] EXCEPT !.received_age = age]] :
        store \in Stores, age \in AgeSamples}

MatcherInit ==
    /\ \E rule \in MatcherRules : rules = _load_rules(RuleFile(TRUE, <<rule>>))
    /\ emails \in MatcherStores
    /\ executions = <<>>
    /\ remote = [i \in EmailIds |-> RemoteOf(emails[i])]
    /\ run = [p \in Procs |-> Idle]
    /\ passes = 0
    /\ hist = [handled |-> {}, cur |-> NoCur, raised |-> {}, last |-> NoLast,
               faults |-> NoFaults, file |-> "parsed", eval |-> NoEval]

\* self.rule_engine._evaluate_rule(email, rule), and what each condition of the
\* rule gives when _evaluate_condition is called on it
EvaluateRule(e) ==
    /\ hist' = [hist EXCEPT !.eval =
                    [email_id |-> e,
                     results |-> ConditionResults(emails[e], rules[1]),
                     result |-> _evaluate_rule(emails[e], rules[1])]]
    /\ UNCHANGED <<rules, emails, executions, remote, run, passes>>

MatcherNext == \E e \in EmailIds : EvaluateRule(e)

MatcherSpec == MatcherInit /\ [][MatcherNext]_vars

----------------------------------------------------------------------------
(* Observations used by the properties *)

HasExecution(rule_id, email_id) ==
    \E k \in 1..Len(executions) :
        executions[k].rule_id = rule_id /\ executions[k].email_id = email_id

\* no pass is running and the last one returned a count
PassReturned ==
    /\ \A p \in Procs : run[p].pc = "idle"
    /\ hist.last.pass = passes
    /\ passes > 0
    /\ ~hist.last.raised

RuleIndex == 1..Len(rules)

CurEntries == 1..Len(hist.cur.entries)

----------------------------------------------------------------------------
(* Properties *)

\* C1: with every store and remote call succeeding, once a pass that returns
\* has applied a rule's actions to a record, no later pass invokes the handler
\* for that rule and record.
C1_AtMostOnePassPerPair ==
    FaultCount = 0 =>
        \A h1, h2 \in hist.handled :
            (/\ h1.rule_id = h2.rule_id /\ h1.email_id = h2.email_id
             /\ h1.applied /\ h1.pass \notin hist.raised)
                => h2.pass <= h1.pass

\* C2: a record that has an execution row for a rule is not returned by
\* get_emails_for_rule for that rule, whatever the rule's conditions and mode
\* are, and is not among the candidates a pass holds for that rule.
C2_ExclusionNeverSkipped ==
    /\ \A r \in RuleCatalogue : \A e \in EmailIds :
           HasExecution(r.id, e) =>
               LET rows == get_emails_for_rule(r, emails, executions).rows
               IN  \A i \in 1..Len(rows) : rows[i].id # e
    /\ \A p \in Procs :
           run[p].pc = "act" =>
               \A i \in 1..Len(run[p].potential_matches) :
                   ~HasExecution(rules[run[p].ruleIdx].id, run[p].potential_matches[i].id)

\* C2 witness: a second pass has gone past a rule whose execution row is for a
\* record the pushdown filter accepts, without invoking the handler for it
C2_Witness ==
    \E p \in Procs : \E i \in RuleIndex : \E e \in EmailIds :
        /\ passes = 2
        /\ run[p].pc # "idle"
        /\ run[p].ruleIdx > i
        /\ HasExecution(rules[i].id, e)
        /\ PushdownFilter(rules[i], emails[e])
        /\ ~\E h \in hist.handled : h.rule_id = rules[i].id /\ h.email_id = e /\ h.pass = 2

\* C3: when a pass returns and no store or remote call failed, every (rule,
\* record) pair to which the pass applied an action has an execution row, and
\* the pass logged as many rows as the count it returns.
C3_LoggedEqualsProcessed ==
    (PassReturned /\ FaultCount = 0) =>
        /\ hist.last.logged = hist.last.count
        /\ \A h \in hist.handled :
               (h.pass = passes /\ h.applied) => HasExecution(h.rule_id, h.email_id)

\* C4: the handler is invoked for a record under a rule only if
\* _evaluate_rule accepts the record for that rule.
C4_HandlerOnlyOnMatches ==
    \A i \in CurEntries : hist.cur.entries[i].matched = "T"

\* C5: of two mark_as_read calls in sequence on the same unread record, with
\* every store and remote call succeeding, the second makes no remote call
\* and returns true.
C5_SecondMarkAsReadIsNoOp ==
    \A i \in CurEntries : \A j \in CurEntries :
        LET first == hist.cur.entries[i]
            second == hist.cur.entries[j]
        IN  (/\ j = i + 1
             /\ first.type = "mark_as_read" /\ second.type = "mark_as_read"
             /\ ~first.wasRead
             /\ FaultCount = 0)
                => (~second.remoteCalled /\ second.result)

\* C6: an action whose remote call fails is not applied: handle_action
\* returns false and the action type is not entered in actions_taken.
C6_RemoteFailureNotApplied ==
    \A i \in CurEntries :
        LET call == hist.cur.entries[i]
        IN  (call.remoteCalled /\ ~call.remoteOk) => ~call.result

\* C7: with an empty rule list a pass returns 0 without raising.
C7_EmptyRuleListReturnsZero ==
    (rules = <<>> /\ hist.last.pass > 0) =>
        (~hist.last.raised /\ hist.last.count = 0)

\* C8: every execution row, stored or batched, has a non-empty actions_taken
\* map and belongs to a (rule, record) pair for which a handler call returned
\* true; a record on which every call returned false gets none.
C8_ExecutionsNonEmpty ==
    /\ \A k \in 1..Len(executions) :
           /\ executions[k].actions_taken # EmptyDict
           /\ \E h \in hist.handled :
                  /\ h.rule_id = executions[k].rule_id
                  /\ h.email_id = executions[k].email_id
                  /\ h.applied
    /\ \A p \in Procs : \A k \in 1..Len(run[p].batch_actions) :
           /\ run[p].batch_actions[k].actions_taken # EmptyDict
           /\ \E h \in hist.handled :
                  /\ h.rule_id = run[p].batch_actions[k].rule_id
                  /\ h.email_id = run[p].batch_actions[k].email_id
                  /\ h.pass = passes
                  /\ h.applied

\* C8 witness: a pass has returned whose last rule had candidates and only
\* actions that returned false; it counted and logged nothing
C8_Witness ==
    /\ PassReturned
    /\ Len(rules) > 0
    /\ \E h \in hist.handled :
           h.rule_id = rules[Len(rules)].id /\ h.pass = passes /\ ~h.applied
    /\ hist.last.count = 0
    /\ executions = <<>>

\* C9: for an action type other than mark_as_read, mark_as_unread and
\* move_message the handler returns false and calls neither the mailbox nor
\* the store, and no execution row, stored or batched, has that type as a key.
C9_UnknownActionRejected ==
    /\ \A i \in CurEntries :
           LET call == hist.cur.entries[i]
           IN  call.type \notin KnownActions =>
                   ~call.result /\ ~call.remoteCalled /\ ~call.updateCalled
    /\ \A k \in 1..Len(executions) :
           DOMAIN executions[k].actions_taken \subseteq KnownActions
    /\ \A p \in Procs :
           /\ DOMAIN run[p].actions_taken \subseteq KnownActions
           /\ \A k \in 1..Len(run[p].batch_actions) :
                  DOMAIN run[p].batch_actions[k].actions_taken \subseteq KnownActions

\* C9 witness: the handler was called with an unknown type for a record to
\* which a known action of the same rule was applied, and the row is stored
C9_Witness ==
    /\ \E i \in CurEntries : hist.cur.entries[i].type \notin KnownActions
    /\ HasExecution(hist.cur.rule_id, hist.cur.email_id)

PredicateModes == {ModeAll, ModeAny, ModeOther, <<"a", "n", "y">>, <<"A", "L", "L">>}

\* C10: for a rule with no conditions, under any predicate mode,
\* _evaluate_rule is false for every record and get_emails_for_rule returns
\* nothing, and no pass invokes the handler under such a rule.
C10_NoConditionsNeverProcessed ==
    /\ \A m \in PredicateModes : \A e \in EmailIds :
           LET bare == Rule("r_none", m, <<>>, <<Act("mark_as_read", NoneStr)>>)
           IN  /\ _evaluate_rule(emails[e], bare) = "F"
               /\ get_emails_for_rule(bare, emails, executions) =
                      [raised |-> FALSE, rows |-> <<>>]
    /\ \A h \in hist.handled :
           \A i \in RuleIndex : rules[i].id = h.rule_id => Len(rules[i].conditions) > 0
    /\ \A p \in Procs : \A i \in RuleIndex :
           (run[p].pc = "act" /\ run[p].ruleIdx = i) => Len(rules[i].conditions) > 0

\* C10 witness: a pass has returned over a rule list that holds a rule with
\* no conditions, while some record has no execution row for it
C10_Witness ==
    /\ PassReturned
    /\ \E i \in RuleIndex : \E e \in EmailIds :
           Len(rules[i].conditions) = 0 /\ ~HasExecution(rules[i].id, e)

\* the predicate mode is all or any, in any letter case
ModeKnown(rule) == Lower(rule.predicate) \in {<<"a", "l", "l">>, <<"a", "n", "y">>}

\* the rule of the list with this id
RuleById(rule_id) == rules[CHOOSE i \in RuleIndex : rules[i].id = rule_id]

\* C12: a rule whose predicate mode is neither all nor any matches no record:
\* _evaluate_rule is false for it, no pass applies one of its actions and no
\* execution row is stored for it.
C12_UnknownModeNeverApplied ==
    /\ \A i \in RuleIndex : \A e \in EmailIds :
           ~ModeKnown(rules[i]) => _evaluate_rule(emails[e], rules[i]) = "F"
    /\ \A h \in hist.handled : h.applied => ModeKnown(RuleById(h.rule_id))
    /\ \A k \in 1..Len(executions) : ModeKnown(RuleById(executions[k].rule_id))

\* C16: when the store fails to write a pass's batch, process_emails still
\* returns its count, no row of the batch is stored, and every record of the
\* batch is again selected for its rule.
C16_FailedLogLeavesRecordsEligible ==
    (/\ \A p \in Procs : run[p].pc = "idle"
     /\ hist.last.pass = passes
     /\ hist.last.failed # <<>>)
        => /\ ~hist.last.raised
           /\ hist.last.count >= Len(hist.last.failed)
           /\ \A k \in 1..Len(hist.last.failed) :
                  LET entry == hist.last.failed[k]
                      rows == get_emails_for_rule(RuleById(entry.rule_id),
                                                  emails, executions).rows
                  IN  /\ ~HasExecution(entry.rule_id, entry.email_id)
                      /\ \E i \in 1..Len(rows) : rows[i].id = entry.email_id

\* C16 witness: a pass has returned a positive count after the write of its
\* batch failed
C16_Witness ==
    /\ \A p \in Procs : run[p].pc = "idle"
    /\ hist.last.pass = passes
    /\ hist.last.failed # <<>>
    /\ hist.last.count > 0
    /\ hist.faults.write = 1

HasType(action) == action.type # NoneStr /\ action.type # ""

\* the first n actions of the rule that have a type, as (type, value) pairs
TypedActions(rule, n) == SelectSeq(SubSeq(rule.actions, 1, n), HasType)

\* the handler calls made for the current record, as (type, value) pairs
Calls == [i \in CurEntries |-> Act(hist.cur.entries[i].type, hist.cur.entries[i].value)]

\* the calls for the current record that returned true
Hits == {i \in CurEntries : hist.cur.entries[i].result}

\* the map holds exactly the types of the calls that returned true, each with
\* the value of the last such call
IsMapOfHits(actions_taken) ==
    /\ DOMAIN actions_taken = {hist.cur.entries[i].type : i \in Hits}
    /\ \A i \in Hits :
           (\A j \in Hits : hist.cur.entries[j].type = hist.cur.entries[i].type => j <= i)
               => actions_taken[hist.cur.entries[i].type] = hist.cur.entries[i].value

\* process p is inside _execute_actions for the record hist.cur is about
InExecuteActions(p) ==
    /\ run[p].pc = "act"
    /\ run[p].ruleIdx = hist.cur.ruleIdx
    /\ run[p].potential_matches[run[p].emailIdx].id = hist.cur.email_id

\* C17: _execute_actions calls the handler once for each action of the rule
\* that has a type, in list order, with that action's type and value, and its
\* map holds exactly the types for which the handler returned true, each with
\* that action's value.
C17_OneCallPerTypedAction ==
    \A p \in Procs :
        (run[p].pc # "idle" /\ hist.cur.pass = passes) =>
            LET rule == RuleById(hist.cur.rule_id)
                batch == run[p].batch_actions
            IN  IF InExecuteActions(p)
                THEN /\ Calls = TypedActions(rule, run[p].actionIdx - 1)
                     /\ IsMapOfHits(run[p].actions_taken)
                ELSE /\ Calls = TypedActions(rule, Len(rule.actions))
                     /\ (run[p].ruleIdx = hist.cur.ruleIdx /\ Hits # {}) =>
                            /\ batch # <<>>
                            /\ batch[Len(batch)].email_id = hist.cur.email_id
                            /\ batch[Len(batch)].rule_id = hist.cur.rule_id
                            /\ IsMapOfHits(batch[Len(batch)].actions_taken)
                     /\ (run[p].ruleIdx = hist.cur.ruleIdx /\ Hits = {}) =>
                            \A k \in 1..Len(batch) : batch[k].email_id # hist.cur.email_id

\* C17 witness: _execute_actions has returned for a record after a call that
\* returned false and a call that returned true; the map is in the batch
C17_Witness ==
    \E p \in Procs :
        /\ run[p].pc = "act"
        /\ hist.cur.pass = passes
        /\ ~InExecuteActions(p)
        /\ run[p].ruleIdx = hist.cur.ruleIdx
        /\ Len(hist.cur.entries) = 2
        /\ ~hist.cur.entries[1].result
        /\ hist.cur.entries[2].result
        /\ run[p].batch_actions # <<>>

\* C18: when there is no rules file at the start, the engine runs with the two
\* default rules: mark_as_read under an all rule on sender and subject, and
\* move_message under an any rule on sender or subject containing newsletter.
C18_MissingFileGivesDefaultRules ==
    hist.file = "missing" =>
        /\ Len(rules) = 2
        /\ Lower(rules[1].predicate) = <<"a", "l", "l">>
        /\ [i \in 1..2 |-> rules[1].conditions[i].field] = <<"from", "subject">>
        /\ [i \in 1..Len(rules[1].actions) |-> rules[1].actions[i].type] = <<"mark_as_read">>
        /\ Lower(rules[2].predicate) = <<"a", "n", "y">>
        /\ [i \in 1..2 |-> rules[2].conditions[i].field] = <<"from", "subject">>
        /\ \A i \in 1..2 :
               /\ rules[2].conditions[i].predicate = "contains"
               /\ Lower(rules[2].conditions[i].value) =
                      <<"n", "e", "w", "s", "l", "e", "t", "t", "e", "r">>
        /\ [i \in 1..Len(rules[2].actions) |-> rules[2].actions[i].type] = <<"move_message">>
        /\ \A p \in Procs : run[p].pc = "select" => run[p].ruleIdx \in 1..2

\* C18 witness: a pass over the rules loaded after a start without a rules
\* file has queried the store for the second rule and returned
C18_Witness ==
    /\ hist.file = "missing"
    /\ PassReturned
    /\ rules # <<>>

\* the record handed to the handler is already in the state the action asks for
AlreadyThere(call) ==
    \/ call.type = "mark_as_read" /\ call.wasRead
    \/ call.type = "mark_as_unread" /\ ~call.wasRead
    \/ call.type = "move_message" /\ call.hadLabel

\* C19: for a record already in the state an action asks for, handle_action
\* returns true, calls neither the mailbox nor update_email, and leaves the
\* mailbox and the store as they are.
C19_NoOpWhenAlreadyInState ==
    \A i \in CurEntries :
        LET call == hist.cur.entries[i]
        IN  AlreadyThere(call) =>
                /\ call.result
                /\ ~call.remoteCalled /\ ~call.updateCalled
                /\ call.remoteSame /\ call.storeSame

\* C19 witness: move_message was called for a record that has the label
C19_Witness ==
    \E i \in CurEntries :
        /\ hist.cur.entries[i].type = "move_message"
        /\ hist.cur.entries[i].hadLabel
        /\ hist.cur.entries[i].result

\* the place of the rule with this id in the rule list
RuleIdxOf(rule_id) == CHOOSE i \in RuleIndex : rules[i].id = rule_id

\* the handler calls of the running pass
HandledNow == {h \in hist.handled : h.pass = passes}

\* C20: in a pass every handler call so far is for a rule at or before the
\* rule the pass is at; the calls under the current rule are for its
\* candidates up to the current one, none left out; and every candidate the
\* pass has not acted on yet is as the store holds it now, changes made under
\* earlier rules included.
C20_RulesAndRecordsInOrder ==
    \A p \in Procs :
        run[p].pc # "idle" =>
            LET l == run[p]
                ids == [k \in 1..Len(l.potential_matches) |-> l.potential_matches[k].id]
            IN  /\ \A h \in HandledNow : RuleIdxOf(h.rule_id) <= l.ruleIdx
                /\ l.pc = "act" =>
                       /\ \A h \in HandledNow :
                              RuleIdxOf(h.rule_id) = l.ruleIdx =>
                                  \E k \in 1..l.emailIdx : ids[k] = h.email_id
                       /\ \A k \in 1..(l.emailIdx - 1) :
                              \E h \in HandledNow :
                                  RuleIdxOf(h.rule_id) = l.ruleIdx /\ h.email_id = ids[k]
                       /\ \A k \in 1..Len(ids) :
                              (k > l.emailIdx \/ (k = l.emailIdx /\ ~InExecuteActions(p)))
                                  => l.potential_matches[k].row = emails[ids[k]]

\* C20 witness: the second rule of the list is about to act on a record that
\* the first rule marked as read in this pass; the candidate shows the change
C20_Witness ==
    \E p \in Procs :
        /\ run[p].pc = "act"
        /\ run[p].ruleIdx = 2
        /\ ~InExecuteActions(p)
        /\ LET email == run[p].potential_matches[run[p].emailIdx]
           IN  /\ email.row.is_read
               /\ \E i \in 1..Len(email.row.labels) : email.row.labels[i] = "UNREAD"
               /\ \E h \in HandledNow :
                      h.rule_id = rules[1].id /\ h.email_id = email.id /\ h.applied

----------------------------------------------------------------------------
(* Properties of the matcher, on MatcherSpec *)

\* _evaluate_rule has been called
Evaluated == hist.eval.email_id # 0

EvalMode == Lower(rules[1].predicate)

EvalConditions == 1..Len(rules[1].conditions)

\* C11: for a rule with conditions, _evaluate_rule is the AND of the results
\* of its conditions under mode all (true when all are true, false when one is
\* false) and their OR under mode any (true when one is true, false when all
\* are false).
C11_RuleIsAndOrOfConditions ==
    Evaluated =>
        LET rs == hist.eval.results
            result == hist.eval.result
        IN  /\ EvalMode = <<"a", "l", "l">> =>
                   /\ (\A i \in EvalConditions : rs[i] = "T") => result = "T"
                   /\ (\E i \in EvalConditions : rs[i] = "F") => result = "F"
            /\ EvalMode = <<"a", "n", "y">> =>
                   /\ (\E i \in EvalConditions : rs[i] = "T") => result = "T"
                   /\ (\A i \in EvalConditions : rs[i] = "F") => result = "F"

\* a condition that lacks its field, predicate or value, names an unknown
\* field, or pairs a field with a predicate of the other type
Inert(c) ==
    \/ c.field = NoneStr \/ c.predicate = NoneStr \/ c.value = NoneTxt
    \/ c.field \notin {"from", "to", "subject", "message", "received_date"}
    \/ c.field # "received_date" /\ c.predicate \in DatePredicateNames
    \/ c.field = "received_date" /\ c.predicate \in StringPredicateNames

NotInert(c) == ~Inert(c)

\* C13: _evaluate_condition is false for an inert condition, and the rule is
\* evaluated as if the inert conditions were not there: under mode any the
\* result is that of the rule's other conditions, under mode all it is not
\* true.
C13_InertConditionIsFalse ==
    Evaluated =>
        LET cs == rules[1].conditions
            others == SelectSeq(cs, NotInert)
            email == emails[hist.eval.email_id]
        IN  /\ \A i \in EvalConditions : Inert(cs[i]) => hist.eval.results[i] = "F"
            /\ (EvalMode = <<"a", "n", "y">> /\ others # <<>>) =>
                   hist.eval.result =
                       _evaluate_rule(email, [rules[1] EXCEPT !.conditions = others])
            /\ (EvalMode = <<"a", "n", "y">> /\ others = <<>>) => hist.eval.result = "F"
            /\ (EvalMode = <<"a", "l", "l">> /\ others # cs) => hist.eval.result # "T"

\* C13 witness: an any rule whose first condition is inert was evaluated to
\* true by its second condition
C13_Witness ==
    /\ Evaluated
    /\ EvalMode = <<"a", "n", "y">>
    /\ Len(rules[1].conditions) = 2
    /\ Inert(rules[1].conditions[1])
    /\ hist.eval.results[2] = "T"
    /\ hist.eval.result = "T"

\* C14: _evaluate_condition gives a boolean for every record and condition,
\* and so does _evaluate_rule: no exception escapes.
C14_NoExceptionEscapes ==
    Evaluated =>
        /\ \A i \in EvalConditions : hist.eval.results[i] \in {"T", "F"}
        /\ hist.eval.result \in {"T", "F"}

\* the age in whole days of a record aged ageHalf half days
WholeDays(ageHalf) == CHOOSE d \in 0..ageHalf : 2 * d <= ageHalf /\ ageHalf < 2 * (d + 1)

\* the number a threshold of the catalogue stands for
Threshold(value) ==
    CASE value = <<"1">> -> 1
      [] value = <<"5">> -> 5
      [] value = <<"6">> -> 6

\* C15: less_than_days v is true exactly when the record's age in whole days
\* is below v, and less_than_months v exactly when it is below v * 30.
C15_DateThresholdIsStrict ==
    Evaluated =>
        \A i \in EvalConditions :
            LET c == rules[1].conditions[i]
                d == WholeDays(emails[hist.eval.email_id].received_age)
            IN  (c.field = "received_date" /\ c.value \in {<<"1">>, <<"5">>, <<"6">>}) =>
                    /\ c.predicate = "less_than_days" =>
                           (hist.eval.results[i] = "T" <=> d < Threshold(c.value))
                    /\ c.predicate = "less_than_months" =>
                           (hist.eval.results[i] = "T" <=> d < Threshold(c.value) * 30)

\* C15 witness: a record received 5 days ago fails less_than_days "5" and
\* passes less_than_days "6"
C15_Witness ==
    /\ Evaluated
    /\ WholeDays(emails[hist.eval.email_id].received_age) = 5
    /\ Len(rules[1].conditions) = 2
    /\ rules[1].conditions[1] = Cond("received_date", "less_than_days", <<"5">>)
    /\ rules[1].conditions[2] = Cond("received_date", "less_than_days", <<"6">>)
    /\ hist.eval.results = <<"F", "T">>

----------------------------------------------------------------------------
(* Properties of two engines on one store, on ConcurrentSpec *)

\* the rows of rule_executions for a rule and a record
RowsOf(rule_id, email_id) ==
    {k \in 1..Len(executions) :
        executions[k].rule_id = rule_id /\ executions[k].email_id = email_id}

\* the passes that had the rule's actions applied to the record
AppliedIn(rule_id, email_id) ==
    {h.pass : h \in {g \in hist.handled : /\ g.rule_id = rule_id
                                          /\ g.email_id = email_id
                                          /\ g.applied}}

\* this step is the return of p's pass from a bulk log that did not fail
Logged(p) ==
    /\ run[p].pc = "log"
    /\ run[p].batchBound
    /\ run[p].batch_actions # <<>>
    /\ run'[p].pc = "idle"
    /\ hist'.faults.write = hist.faults.write

\* C21: when passes overlap nothing enforces one execution row per rule and
\* record: a pass that selected a record before another pass committed has
\* its whole batch stored, rows for pairs that already have one included, and
\* a pair with several rows had the rule's actions applied in as many passes.
C21_OverlapStoresDuplicates ==
    [][/\ \A p \in Procs :
             Logged(p) => executions' = executions \o run[p].batch_actions
       /\ \A r \in RuleIndex : \A e \in EmailIds :
             Cardinality(RowsOf(rules[r].id, e))' <=
                 Cardinality(AppliedIn(rules[r].id, e))']_vars

\* two passes applied one rule to one record and each stored its row
C21_Witness ==
    \E r \in RuleIndex : \E e \in EmailIds :
        /\ Cardinality(RowsOf(rules[r].id, e)) >= 2
        /\ Cardinality(AppliedIn(rules[r].id, e)) >= 2

\* C22: no operation of the engine updates or deletes an execution row: over
\* every step of a pass, of the dispatcher and of an upsert of a stored record
\* the rows stored before are still there, unchanged and in their place.
C22_ExecutionsOnlyGrow ==
    [][/\ Len(executions') >= Len(executions)
       /\ SubSeq(executions', 1, Len(executions)) = executions]_vars

\* a record with an execution row has been upserted from the mailbox after
\* the rule marked it read there
C22_Witness ==
    \E e \in EmailIds :
        /\ RowsOf(rules[1].id, e) # {}
        /\ emails[e].is_read
        /\ emails[e].subject = <<"a", "b">>
        /\ \A i \in 1..Len(emails[e].labels) : emails[e].labels[i] # "UNREAD"

----------------------------------------------------------------------------
(* Properties of the pass and the matcher together *)

\* the rule's only condition is  received_date greater_than_days N
OnlyGreaterThanDays(rule) ==
    /\ Len(rule.conditions) = 1
    /\ rule.conditions[1].field = "received_date"
    /\ rule.conditions[1].predicate = "greater_than_days"
    /\ IsIntLiteral(rule.conditions[1].value)

\* the rule's actions were applied to the record, or a row says so
ActedOn(rule_id, email_id) ==
    AppliedIn(rule_id, email_id) # {} \/ HasExecution(rule_id, email_id)

\* C23: a rule whose only condition is received_date greater_than_days N has
\* its actions applied, and an execution row stored, only for records whose
\* age in whole days is above N.
C23_GreaterThanDaysActsOnWholeDays ==
    \A i \in RuleIndex : \A e \in EmailIds :
        (OnlyGreaterThanDays(rules[i]) /\ ActedOn(rules[i].id, e)) =>
            WholeDays(emails[e].received_age) > PyInt(rules[i].conditions[1].value)

\* C24: a dispatcher call changes the stored row of a record only if its
\* remote call succeeded.
C24_StoreFollowsMailbox ==
    \A i \in CurEntries :
        ~hist.cur.entries[i].storeSame => hist.cur.entries[i].remoteOk

\* C25: when passes do not overlap and rule ids are unique, the store holds at
\* most one execution row for a rule and a record.
C25_OneRowPerPair ==
    \A i \in RuleIndex : \A e \in EmailIds :
        Cardinality(RowsOf(rules[i].id, e)) <= 1

\* a second pass has returned, and a record the first pass logged for a rule
\* still passes the rule's filter and has its one row
C25_Witness ==
    \E i \in RuleIndex : \E e \in EmailIds :
        /\ PassReturned
        /\ passes >= 2
        /\ AppliedIn(rules[i].id, e) = {1}
        /\ PushdownFilter(rules[i], emails[e])
        /\ Cardinality(RowsOf(rules[i].id, e)) = 1

\* get_emails_for_rule(rule) returns the record
Selected(rule, email_id) ==
    LET got == get_emails_for_rule(rule, emails, executions)
    IN  ~got.raised /\ \E k \in 1..Len(got.rows) : got.rows[k].id = email_id

\* C26: for a rule of mode all or any, a record without an execution row for
\* the rule that _evaluate_rule accepts is returned by get_emails_for_rule.
C26_PushdownKeepsMatches ==
    \A i \in RuleIndex : \A e \in EmailIds :
        (/\ ModeKnown(rules[i])
         /\ ~HasExecution(rules[i].id, e)
         /\ _evaluate_rule(emails[e], rules[i]) = "T")
            => Selected(rules[i], e)

\* a pass has ended, by returning or by raising, and none is running
PassEnded ==
    /\ \A p \in Procs : run[p].pc = "idle"
    /\ hist.last.pass = passes
    /\ passes > 0

\* C27: with no failure of the store or the mailbox, when a pass has ended,
\* every record that a rule with a typed action accepts and that has no
\* execution row for it was handed to the handler under that rule in this
\* pass; and a pass never goes beyond the rules of the list, the records of
\* the store and the actions of the rule, so it ends within rules x records x
\* actions handler calls.
C27_MatchesDispatchedNextPass ==
    /\ (PassEnded /\ FaultCount = 0) =>
           \A i \in RuleIndex : \A e \in EmailIds :
               (/\ _evaluate_rule(emails[e], rules[i]) = "T"
                /\ \E k \in 1..Len(rules[i].actions) : HasType(rules[i].actions[k])
                /\ ~HasExecution(rules[i].id, e))
                   => \E h \in HandledNow : h.rule_id = rules[i].id /\ h.email_id = e
    /\ \A p \in Procs :
           run[p].pc = "act" =>
               /\ run[p].ruleIdx <= Len(rules)
               /\ Len(run[p].potential_matches) <= Cardinality(EmailIds)
               /\ run[p].emailIdx <= Len(run[p].potential_matches)
               /\ run[p].actionIdx <= Len(rules[run[p].ruleIdx].actions)
               /\ Len(hist.cur.entries) <= Len(rules[run[p].ruleIdx].actions)

====
